---- MODULE Spec2Model ----
(***************************************************************************)
(* idempotent-proxy: token codec and verifier (idempotent-proxy-types,     *)
(* auth.rs) and the canister's proxy-token refresh task (tasks.rs).        *)
(*                                                                         *)
(* Bytes are naturals 0..255 and byte strings are sequences of them.       *)
(* u64 is modelled by a word of WordBits bits: every value the code holds  *)
(* in a u64 lies in 0..Word-1 and u64 additions are taken at that width.   *)
(* Signatures are ideal: a signature is a fixed-length byte string that    *)
(* names the signing key and carries the signed message, so it validates   *)
(* under exactly one key and for exactly one message, and both signers are *)
(* deterministic.                                                          *)
(***************************************************************************)
EXTENDS Integers, Sequences, FiniteSets, TLC

\* ------------------------------------------------------------------------
\* Bounds of the model
\* ------------------------------------------------------------------------
WordBits == 8
MaxAgents == 3
MaxTime == 2
RefreshInterval == 2
MaxNow == 12
NumKeys == 2
SigLen == 9

\* ------------------------------------------------------------------------
\* Program constants
\* ------------------------------------------------------------------------
PERMITTED_DRIFT == 10
TokenMargin == 120

Word == 2 ^ WordBits

\* ------------------------------------------------------------------------
\* CBOR (ciborium into_writer / from_reader) for the shapes auth.rs uses
\* ------------------------------------------------------------------------
\* Head of a CBOR item: major type in the top three bits, the argument in the
\* low five bits when it is below 24, else in the one (24) or two (25) bytes
\* that follow. The encoder always picks the shortest form.
CborHead(major, n) ==
    IF n < 24 THEN << major * 32 + n >>
    ELSE IF n < 256 THEN << major * 32 + 24, n >>
    ELSE << major * 32 + 25, n \div 256, n % 256 >>

EncodeUint(v) == CborHead(0, v)
EncodeBytes(b) == CborHead(2, Len(b)) \o b
EncodeText(s) == CborHead(3, Len(s)) \o s

\* into_writer(&(expire_at, &agent), ..): the signed sub-payload.
EncodePayload(expire_at, agent) ==
    CborHead(4, 2) \o EncodeUint(expire_at) \o EncodeText(agent)

\* into_writer(&(expire_at, agent, ByteBuf::from(sig)), ..): the token.
EncodeToken(expire_at, agent, sig) ==
    CborHead(4, 3) \o EncodeUint(expire_at) \o EncodeText(agent) \o EncodeBytes(sig)

Fail == [ok |-> FALSE, val |-> 0, next |-> 0]

\* Reads the head at position p: [ok, major, val, next]. Arguments wider than
\* two bytes, reserved and indefinite-length heads are refused.
ReadHead(d, p) ==
    IF p > Len(d) THEN [ok |-> FALSE, major |-> 0, val |-> 0, next |-> 0]
    ELSE LET b == d[p]
             info == b % 32
             major == b \div 32
         IN  IF info < 24
             THEN [ok |-> TRUE, major |-> major, val |-> info, next |-> p + 1]
             ELSE IF info = 24 /\ p + 1 <= Len(d)
             THEN [ok |-> TRUE, major |-> major, val |-> d[p + 1], next |-> p + 2]
             ELSE IF info = 25 /\ p + 2 <= Len(d)
             THEN [ok |-> TRUE, major |-> major,
                   val |-> d[p + 1] * 256 + d[p + 2], next |-> p + 3]
             ELSE [ok |-> FALSE, major |-> 0, val |-> 0, next |-> 0]

\* A u64 field: an unsigned integer head whose value fits the word.
DecodeUint(d, p) ==
    LET h == ReadHead(d, p)
    IN  IF h.ok /\ h.major = 0 /\ h.val < Word
        THEN [ok |-> TRUE, val |-> h.val, next |-> h.next]
        ELSE Fail

\* The bytes of a string item of the given major type.
DecodeString(d, p, major) ==
    LET h == ReadHead(d, p)
    IN  IF h.ok /\ h.major = major /\ h.next + h.val - 1 <= Len(d)
        THEN [ok |-> TRUE, val |-> SubSeq(d, h.next, h.next + h.val - 1),
              next |-> h.next + h.val]
        ELSE Fail

\* String requires UTF-8; every byte below 128 is a one-byte code point and a
\* byte from 128 up is accepted only inside a multi-byte sequence, which no
\* string handled here contains.
Utf8(s) == \A i \in 1..Len(s) : s[i] < 128

\* from_reader::<Token>(data): a three-element array (u64, String, ByteBuf).
\* Bytes after the item are not looked at.
from_reader(data) ==
    LET h == ReadHead(data, 1)
        e == IF h.ok THEN DecodeUint(data, h.next) ELSE Fail
        s == IF e.ok THEN DecodeString(data, e.next, 3) ELSE Fail
        g == IF s.ok THEN DecodeString(data, s.next, 2) ELSE Fail
    IN  IF h.ok /\ h.major = 4 /\ h.val = 3 /\ e.ok /\ s.ok /\ Utf8(s.val) /\ g.ok
        THEN [ok |-> TRUE, token |-> << e.val, s.val, g.val >>]
        ELSE [ok |-> FALSE, token |-> << 0, << >>, << >> >>]

\* ------------------------------------------------------------------------
\* Keys and ideal signatures
\* ------------------------------------------------------------------------
\* A key pair is named by one number; the verifying key of signing key k is k.
\* Ed25519 keys are 1..NumKeys, Secp256k1 keys NumKeys+1..2*NumKeys.
Ed25519Keys == 1..NumKeys
EcdsaKeys == (NumKeys + 1)..(2 * NumKeys)

Zeros(n) == [i \in 1..n |-> 0]

\* The signature of key over msg: SigLen bytes holding the key, the length
\* of the message and the message, zero-filled (cut when it does not fit).
\* The key is written plain and inverted: signatures of two keys differ in
\* more than one bit, so inverting one bit of a signature never yields a
\* signature of another key.
SigOf(key, msg) ==
    SubSeq(<< key, 255 - key, Len(msg) >> \o msg \o Zeros(SigLen), 1, SigLen)

Reverse(s) == [i \in 1..Len(s) |-> s[Len(s) + 1 - i]]

\* Sha3_256 as an ideal hash: injective and not the identity.
sha3_256(data) == Reverse(data)

\* Variant of verify_strict that checks the signing key and not the message.
VerifyKeyOnly(key, buf, sig) == Len(sig) > 0 /\ sig[1] = key

\* ed25519_dalek: key.sign(&buf) and key.verify_strict(&buf, &sig).
Ed25519SignRaw(key, buf) == SigOf(key, buf)
verify_strict(key, buf, sig) == sig = SigOf(key, buf)

\* k256: key.sign_prehash(&digest) and key.verify_prehash(digest, &sig).
sign_prehash(key, digest) == SigOf(key, digest)
verify_prehash(key, digest, sig) == sig = SigOf(key, digest)

\* Signature::from_slice / Signature::try_from: the byte length must be the
\* signature length of the scheme.
SignatureParses(sig) == Len(sig) = SigLen

\* ------------------------------------------------------------------------
\* auth.rs
\* ------------------------------------------------------------------------
ed25519_sign(key, expire_at, agent) ==
    LET buf == EncodePayload(expire_at, agent)
        sig == Ed25519SignRaw(key, buf)
    IN  EncodeToken(expire_at, agent, sig)

ecdsa_sign(key, expire_at, agent) ==
    LET buf == EncodePayload(expire_at, agent)
        digest == sha3_256(buf)
        sig == sign_prehash(key, digest)
    IN  EncodeToken(expire_at, agent, sig)

NoToken == << 0, << >>, << >> >>
Ok(token) == [ok |-> TRUE, err |-> "", token |-> token]
Err(msg) == [ok |-> FALSE, err |-> msg, token |-> NoToken]

\* token.0 + PERMITTED_DRIFT < unix_ms() / 1000 on u64. A sum past the word
\* aborts the call in a build with overflow checks ("panic") and wraps in a
\* build without them. Gives "panic", "expired" or "fresh".
ExpiryCheck(expire_at, now, overflow_checks) ==
    LET sum == expire_at + PERMITTED_DRIFT
    IN  IF sum >= Word /\ overflow_checks THEN "panic"
        ELSE IF sum % Word < now THEN "expired"
        ELSE "fresh"

Panic == Err("panic: attempt to add with overflow")

\* Variant of ed25519_verify that checks the signature before the expiry.
Ed25519VerifySigFirst(keys, data, now, overflow_checks) ==
    LET r == from_reader(data)
        token == r.token
        chk == ExpiryCheck(token[1], now, overflow_checks)
        buf == EncodePayload(token[1], token[2])
    IN  IF ~r.ok THEN Err("failed to decode CBOR data")
        ELSE IF ~SignatureParses(token[3]) THEN Err("failed to parse Ed25519 signature")
        ELSE IF ~(\E i \in 1..Len(keys) : verify_strict(keys[i], buf, token[3]))
        THEN Err("failed to verify Ed25519 signature")
        ELSE IF chk = "panic" THEN Panic
        ELSE IF chk = "expired" THEN Err("token expired")
        ELSE Ok(token)

ed25519_verify(keys, data, now, overflow_checks) ==
    LET r == from_reader(data)
        token == r.token
        chk == ExpiryCheck(token[1], now, overflow_checks)
        buf == EncodePayload(token[1], token[2])
    IN  IF ~r.ok THEN Err("failed to decode CBOR data")
        ELSE IF chk = "panic" THEN Panic
        ELSE IF chk = "expired" THEN Err("token expired")
        ELSE IF ~SignatureParses(token[3]) THEN Err("failed to parse Ed25519 signature")
        ELSE IF \E i \in 1..Len(keys) : verify_strict(keys[i], buf, token[3])
        THEN Ok(token)
        ELSE Err("failed to verify Ed25519 signature")

ecdsa_verify(keys, data, now, overflow_checks) ==
    LET r == from_reader(data)
        token == r.token
        chk == ExpiryCheck(token[1], now, overflow_checks)
        buf == EncodePayload(token[1], token[2])
        digest == sha3_256(buf)
    IN  IF ~r.ok THEN Err("failed to decode CBOR data")
        ELSE IF chk = "panic" THEN Panic
        ELSE IF chk = "expired" THEN Err("token expired")
        ELSE IF ~SignatureParses(token[3]) THEN Err("failed to parse Secp256k1 signature")
        ELSE IF \E i \in 1..Len(keys) : verify_prehash(keys[i], digest, token[3])
        THEN Ok(token)
        ELSE Err("failed to verify ECDSA/Secp256k1 signature")

\* ------------------------------------------------------------------------
\* State
\* ------------------------------------------------------------------------
VARIABLES
    agents,             \* store: s.agents, the shared roster
    ecdsa_key_name,     \* store: s.ecdsa_key_name, the oracle key it names
    proxy_token_refresh_interval,   \* store: s.proxy_token_refresh_interval
    time,               \* ic_cdk::api::time() / SECONDS
    pass,               \* the refresh passes, one record per invocation
    overflow_checks,    \* whether the build checks integer overflow
    vkeys,              \* the verifier's ordered key set
    unix_s,             \* the verifier's clock, unix_ms() / 1000
    signed,             \* the last token a signer returned, with its inputs
    data,               \* the bytes handed to the verifier
    result              \* the outcome of the last verification, with its inputs

refreshVars == << agents, ecdsa_key_name, proxy_token_refresh_interval, time, pass >>
authVars == << overflow_checks, vkeys, unix_s, signed, data, result >>
vars == << agents, ecdsa_key_name, proxy_token_refresh_interval, time, pass,
           overflow_checks, vkeys, unix_s, signed, data, result >>

\* Agent names, as the bytes of the strings "a" and "b".
Names == { << 97 >>, << 98 >> }

None == [some |-> FALSE, val |-> << >>]
Some(v) == [some |-> TRUE, val |-> v]

\* Sequences over S of length 0..n.
SeqsUpTo(S, n) == UNION { [1..k -> S] : k \in 0..n }

\* Two invocations of the task, which may overlap.
Passes == {1, 2}

\* ------------------------------------------------------------------------
\* tasks.rs
\* ------------------------------------------------------------------------
\* ecdsa::sign_proxy_token up to the oracle call: the digest of the signable
\* sub-payload is what crosses to the signing oracle.
SignRequest(key_name, expire_at, name) ==
    [key |-> key_name, expire_at |-> expire_at, agent |-> name,
     digest |-> sha3_256(EncodePayload(expire_at, name))]

\* ecdsa::sign_proxy_token after the oracle answered: the encoded token.
SignedToken(req) ==
    EncodeToken(req.expire_at, req.agent, sign_prehash(req.key, req.digest))

\* Variant of ExpireAt that leaves the safety margin out.
ExpireAtNoMargin(now, interval) == now + interval

\* Variant of ExpireAt that takes the current time off the expiry.
ExpireAtCountdown(now, interval) == interval + TokenMargin - now

\* (ic_cdk::api::time() / SECONDS) + proxy_token_refresh_interval + 120
ExpireAt(now, interval) == now + interval + TokenMargin

\* Variant of Advance that never consults the memo: every record is signed.
AdvanceNoMemo(ags, tokens, i) == [agents |-> ags, idx |-> i]

\* Variant of Advance that skips a record whose name is in the memo without
\* giving it the memo's token.
RECURSIVE AdvanceSkip(_, _, _)
AdvanceSkip(ags, tokens, i) ==
    IF i > Len(ags) THEN [agents |-> ags, idx |-> i]
    ELSE IF ags[i].name \in DOMAIN tokens THEN AdvanceSkip(ags, tokens, i + 1)
    ELSE [agents |-> ags, idx |-> i]

\* The for loop from record i on, as far as it runs without awaiting: records
\* whose name is in the memo take its token; the loop stops at the first
\* record whose name is not, or past the end.
RECURSIVE Advance(_, _, _)
Advance(ags, tokens, i) ==
    IF i > Len(ags) THEN [agents |-> ags, idx |-> i]
    ELSE IF ags[i].name \in DOMAIN tokens
    THEN Advance([ags EXCEPT ![i].proxy_token = Some(tokens[ags[i].name])],
                 tokens, i + 1)
    ELSE [agents |-> ags, idx |-> i]

\* Variant of Resume that writes the local roster to the store each time the
\* loop suspends, not only when it ends.
ResumeWriteThrough(p, ags, tokens, i, started) ==
    LET a == Advance(ags, tokens, i)
    IN  /\ agents' = a.agents
        /\ IF a.idx > Len(ags)
           THEN pass' = [pass EXCEPT ![p] =
                    [@ EXCEPT !.pc = "done", !.agents = a.agents,
                              !.tokens = tokens, !.idx = a.idx,
                              !.started = started, !.published = @ + 1,
                              !.replaced = agents]]
           ELSE pass' = [pass EXCEPT ![p] =
                    [@ EXCEPT !.pc = "awaiting", !.agents = a.agents,
                              !.tokens = tokens, !.idx = a.idx,
                              !.started = started,
                              !.calls = Append(@,
                                  SignRequest(ecdsa_key_name,
                                      ExpireAt(time, proxy_token_refresh_interval),
                                      a.agents[a.idx].name))]]

\* Variant of Resume whose final write keeps the tokens the shared roster
\* already holds and fills in only the records that have none.
ResumeMerge(p, ags, tokens, i, started) ==
    LET a == Advance(ags, tokens, i)
    IN  IF a.idx > Len(ags)
        THEN /\ agents' = [k \in DOMAIN a.agents |->
                             IF k \in DOMAIN agents /\ agents[k].proxy_token.some
                             THEN agents[k] ELSE a.agents[k]]
             /\ pass' = [pass EXCEPT ![p] =
                    [@ EXCEPT !.pc = "done", !.agents = a.agents,
                              !.tokens = tokens, !.idx = a.idx,
                              !.started = started, !.published = @ + 1,
                              !.replaced = agents]]
        ELSE /\ agents' = agents
             /\ pass' = [pass EXCEPT ![p] =
                    [@ EXCEPT !.pc = "awaiting", !.agents = a.agents,
                              !.tokens = tokens, !.idx = a.idx,
                              !.started = started,
                              !.calls = Append(@,
                                  SignRequest(ecdsa_key_name,
                                      ExpireAt(time, proxy_token_refresh_interval),
                                      a.agents[a.idx].name))]]

\* Variant of Resume whose final write keeps the records the shared roster
\* holds at that time and only gives them the tokens of the memo.
ResumeUpdateInPlace(p, ags, tokens, i, started) ==
    LET a == Advance(ags, tokens, i)
    IN  IF a.idx > Len(ags)
        THEN /\ agents' = [k \in DOMAIN agents |->
                             IF agents[k].name \in DOMAIN tokens
                             THEN [agents[k] EXCEPT
                                     !.proxy_token = Some(tokens[agents[k].name])]
                             ELSE agents[k]]
             /\ pass' = [pass EXCEPT ![p] =
                    [@ EXCEPT !.pc = "done", !.agents = a.agents,
                              !.tokens = tokens, !.idx = a.idx,
                              !.started = started, !.published = @ + 1,
                              !.replaced = agents]]
        ELSE /\ agents' = agents
             /\ pass' = [pass EXCEPT ![p] =
                    [@ EXCEPT !.pc = "awaiting", !.agents = a.agents,
                              !.tokens = tokens, !.idx = a.idx,
                              !.started = started,
                              !.calls = Append(@,
                                  SignRequest(ecdsa_key_name,
                                      ExpireAt(time, proxy_token_refresh_interval),
                                      a.agents[a.idx].name))]]

\* One uninterrupted run of update_proxy_token's loop for pass p, entered at
\* record i with the local roster ags and the memo tokens: it either reaches
\* the next signing call and suspends there, or leaves the loop and writes
\* the local roster to the store (replaced keeps the roster the write drops).
Resume(p, ags, tokens, i, started) ==
    LET a == Advance(ags, tokens, i)
    IN  IF a.idx > Len(ags)
        THEN /\ agents' = a.agents
             /\ pass' = [pass EXCEPT ![p] =
                    [@ EXCEPT !.pc = "done", !.agents = a.agents,
                              !.tokens = tokens, !.idx = a.idx,
                              !.started = started, !.published = @ + 1,
                              !.replaced = agents]]
        ELSE /\ agents' = agents
             /\ pass' = [pass EXCEPT ![p] =
                    [@ EXCEPT !.pc = "awaiting", !.agents = a.agents,
                              !.tokens = tokens, !.idx = a.idx,
                              !.started = started,
                              !.calls = Append(@,
                                  SignRequest(ecdsa_key_name,
                                      ExpireAt(time, proxy_token_refresh_interval),
                                      a.agents[a.idx].name))]]

\* Variant of refresh_proxy_token without the early return on an empty roster.
RefreshNoEmptyCheck(p) ==
    /\ pass[p].pc = "idle"
    /\ Resume(p, agents, << >>, 1, time)
    /\ UNCHANGED << ecdsa_key_name, proxy_token_refresh_interval, time, authVars >>

\* refresh_proxy_token: reads the store and runs update_proxy_token up to its
\* first await. An empty roster returns at once.
refresh_proxy_token(p) ==
    /\ pass[p].pc = "idle"
    /\ IF agents = << >>
       THEN /\ pass' = [pass EXCEPT ![p].pc = "done", ![p].started = time]
            /\ agents' = agents
       ELSE Resume(p, agents, << >>, 1, time)
    /\ UNCHANGED << ecdsa_key_name, proxy_token_refresh_interval, time, authVars >>

\* Variant of SignReturns that puts the token into the memo and not into the
\* record it was signed for.
SignReturnsMemoOnly(p) ==
    /\ pass[p].pc = "awaiting"
    /\ LET s == pass[p]
           req == s.calls[Len(s.calls)]
           token == SignedToken(req)
           name == s.agents[s.idx].name
       IN  Resume(p, s.agents,
                  [n \in DOMAIN s.tokens \cup {name} |->
                      IF n = name THEN token ELSE s.tokens[n]],
                  s.idx + 1, s.started)
    /\ UNCHANGED << ecdsa_key_name, proxy_token_refresh_interval, time, authVars >>

\* The awaited signing call of pass p returns a token: it goes into the memo
\* and into the record, and the loop goes on.
SignReturns(p) ==
    /\ pass[p].pc = "awaiting"
    /\ LET s == pass[p]
           req == s.calls[Len(s.calls)]
           token == SignedToken(req)
           name == s.agents[s.idx].name
       IN  Resume(p, [s.agents EXCEPT ![s.idx].proxy_token = Some(token)],
                  [n \in DOMAIN s.tokens \cup {name} |->
                      IF n = name THEN token ELSE s.tokens[n]],
                  s.idx + 1, s.started)
    /\ UNCHANGED << ecdsa_key_name, proxy_token_refresh_interval, time, authVars >>

\* Variant of SignFails that publishes what the pass has signed so far.
SignFailsPublishes(p) ==
    /\ pass[p].pc = "awaiting"
    /\ agents' = pass[p].agents
    /\ pass' = [pass EXCEPT ![p].pc = "trapped", ![p].published = @ + 1]
    /\ UNCHANGED << ecdsa_key_name, proxy_token_refresh_interval, time, authVars >>

\* Variant of SignFails that issues the failed call again and keeps waiting.
SignFailsRetries(p) ==
    /\ pass[p].pc = "awaiting"
    /\ pass' = [pass EXCEPT ![p].calls = Append(@, @[Len(@)])]
    /\ UNCHANGED << agents, ecdsa_key_name, proxy_token_refresh_interval, time, authVars >>

\* The awaited signing call of pass p fails: expect() panics, the callback
\* traps and the pass ends there.
SignFails(p) ==
    /\ pass[p].pc = "awaiting"
    /\ pass' = [pass EXCEPT ![p].pc = "trapped"]
    /\ UNCHANGED << agents, ecdsa_key_name, proxy_token_refresh_interval, time, authVars >>

\* Time passes between messages.
Tick ==
    /\ time < MaxTime
    /\ time' = time + 1
    /\ UNCHANGED << agents, ecdsa_key_name, proxy_token_refresh_interval, pass, authVars >>

\* Another actor replaces the shared roster as a whole (the roster is
\* "readable and replaceable as a whole"); the new records carry no token.
ReplaceRoster(ns) ==
    /\ agents' = [i \in DOMAIN ns |-> [name |-> ns[i], proxy_token |-> None]]
    /\ agents' # agents
    /\ UNCHANGED << ecdsa_key_name, proxy_token_refresh_interval, time, pass, authVars >>

IdlePass ==
    [pc |-> "idle", agents |-> << >>, tokens |-> << >>, idx |-> 0,
     started |-> 0, calls |-> << >>, published |-> 0, replaced |-> << >>]

AuthIdle ==
    /\ overflow_checks = FALSE
    /\ vkeys = << >>
    /\ unix_s = 0
    /\ signed = [scheme |-> "", key |-> 0, expire_at |-> 0, agent |-> << >>, bytes |-> << >>]
    /\ data = << >>
    /\ result = [scheme |-> "", keys |-> << >>, data |-> << >>, now |-> 0, out |-> Err("")]

Init ==
    /\ agents \in { [i \in DOMAIN ns |-> [name |-> ns[i], proxy_token |-> None]] :
                      ns \in SeqsUpTo(Names, MaxAgents) }
    /\ ecdsa_key_name = NumKeys + 1
    /\ proxy_token_refresh_interval = RefreshInterval
    /\ time = 0
    /\ pass = [p \in Passes |-> IdlePass]
    /\ AuthIdle

\* ------------------------------------------------------------------------
\* Signing and verifying (callers of auth.rs)
\* ------------------------------------------------------------------------
\* Verifying key i of a scheme, by its index in the configuration.
Ed25519Key(i) == i
EcdsaKey(i) == NumKeys + i

\* Ordered key sets: sequences of distinct key indices, the empty one included.
KeySets ==
    { ks \in SeqsUpTo(1..NumKeys, NumKeys) :
        \A i, j \in DOMAIN ks : i # j => ks[i] # ks[j] }

\* Expiry times handed to the signers: around the verifier's clock less the
\* drift, one that needs a two-byte head, and the top of the word.
ExpireAts ==
    (0..(MaxNow - PERMITTED_DRIFT))
        \cup { 24, Word - PERMITTED_DRIFT - 1, Word - PERMITTED_DRIFT, Word - 1 }

\* The subject handed to the signers, the bytes of the string "a".
Subjects == { << 97 >> }

Unsigned == [scheme |-> "", key |-> 0, expire_at |-> 0, agent |-> << >>, bytes |-> << >>]
NoResult == [scheme |-> "", keys |-> << >>, data |-> << >>, now |-> 0, out |-> Err("")]

\* Bit k of byte b inverted.
FlipBit(b, k) == IF (b \div (2 ^ k)) % 2 = 1 THEN b - 2 ^ k ELSE b + 2 ^ k

Ed25519Sign(k, e, a) ==
    /\ signed = Unsigned
    /\ signed' = [scheme |-> "ed25519", key |-> Ed25519Key(k), expire_at |-> e,
                  agent |-> a, bytes |-> ed25519_sign(Ed25519Key(k), e, a)]
    /\ data' = signed'.bytes
    /\ UNCHANGED << overflow_checks, vkeys, unix_s, result, refreshVars >>

EcdsaSign(k, e, a) ==
    /\ signed = Unsigned
    /\ signed' = [scheme |-> "ecdsa", key |-> EcdsaKey(k), expire_at |-> e,
                  agent |-> a, bytes |-> ecdsa_sign(EcdsaKey(k), e, a)]
    /\ data' = signed'.bytes
    /\ UNCHANGED << overflow_checks, vkeys, unix_s, result, refreshVars >>

\* The token is altered on its way to the verifier: one bit of one byte of
\* the expiry, subject or signature item is inverted. Altered tokens are put
\* to a verifier that holds every key.
Tamper(i, k) ==
    /\ signed # Unsigned
    /\ data = signed.bytes
    /\ result = NoResult
    /\ Len(vkeys) = NumKeys
    /\ i \in 2..Len(data)
    /\ data' = [data EXCEPT ![i] = FlipBit(@, k)]
    /\ UNCHANGED << overflow_checks, vkeys, unix_s, signed, result, refreshVars >>

Ed25519Verify ==
    /\ signed.scheme = "ed25519"
    /\ result' = [scheme |-> "ed25519", keys |-> vkeys, data |-> data, now |-> unix_s,
                  out |-> ed25519_verify([i \in DOMAIN vkeys |-> Ed25519Key(vkeys[i])],
                                         data, unix_s, overflow_checks)]
    /\ UNCHANGED << overflow_checks, vkeys, unix_s, signed, data, refreshVars >>

EcdsaVerify ==
    /\ signed.scheme = "ecdsa"
    /\ result' = [scheme |-> "ecdsa", keys |-> vkeys, data |-> data, now |-> unix_s,
                  out |-> ecdsa_verify([i \in DOMAIN vkeys |-> EcdsaKey(vkeys[i])],
                                       data, unix_s, overflow_checks)]
    /\ UNCHANGED << overflow_checks, vkeys, unix_s, signed, data, refreshVars >>

\* A key is taken out of the verifier's key set (key rotation, on tokens as
\* they were signed).
RemoveKey(i) ==
    /\ i \in DOMAIN vkeys
    /\ data = signed.bytes
    /\ vkeys' = [j \in 1..(Len(vkeys) - 1) |-> IF j < i THEN vkeys[j] ELSE vkeys[j + 1]]
    /\ UNCHANGED << overflow_checks, unix_s, signed, data, result, refreshVars >>

\* The verifier's clock advances.
ClockTick ==
    /\ unix_s < MaxNow
    /\ unix_s' = unix_s + 1
    /\ UNCHANGED << overflow_checks, vkeys, signed, data, result, refreshVars >>

RefreshIdle ==
    /\ agents = << >>
    /\ ecdsa_key_name = NumKeys + 1
    /\ proxy_token_refresh_interval = RefreshInterval
    /\ time = 0
    /\ pass = [p \in Passes |-> IdlePass]

InitAuth ==
    /\ overflow_checks \in BOOLEAN
    /\ vkeys \in KeySets
    /\ unix_s = PERMITTED_DRIFT + 1
    /\ signed = Unsigned
    /\ data = << >>
    /\ result = NoResult
    /\ RefreshIdle

NextAuth ==
    \/ \E k \in 1..NumKeys, e \in ExpireAts, a \in Subjects : Ed25519Sign(k, e, a)
    \/ \E k \in 1..NumKeys, e \in ExpireAts, a \in Subjects : EcdsaSign(k, e, a)
    \/ \E i \in 2..(SigLen + 8), k \in 0..7 : Tamper(i, k)
    \/ Ed25519Verify
    \/ EcdsaVerify
    \/ \E i \in 1..NumKeys : RemoveKey(i)
    \/ ClockTick

SpecAuth == InitAuth /\ [][NextAuth]_vars

Next ==
    \/ \E p \in Passes : refresh_proxy_token(p)
    \/ \E p \in Passes : SignReturns(p)
    \/ \E p \in Passes : SignFails(p)
    \/ Tick

Spec == Init /\ [][Next]_vars

\* One refresh pass next to an actor that replaces the roster.
NextAdmin ==
    \/ refresh_proxy_token(1)
    \/ SignReturns(1)
    \/ SignFails(1)
    \/ Tick
    \/ \E ns \in SeqsUpTo(Names, MaxAgents) : ReplaceRoster(ns)

SpecAdmin == Init /\ [][NextAdmin]_vars

\* The refresh task where every awaited signing call eventually returns,
\* with a token or with an error.
SpecFair == Spec /\ \A p \in Passes : WF_vars(SignReturns(p) \/ SignFails(p))

\* ------------------------------------------------------------------------
\* Properties of the refresh task (checked under Spec)
\* ------------------------------------------------------------------------
NamesOf(ags) == { ags[i].name : i \in DOMAIN ags }

\* C1: in one pass no two signing calls are for the same agent name, and a
\* pass that has completed has issued exactly as many signing calls as its
\* roster has distinct names.
C1_OneCallPerName ==
    \A p \in Passes :
        /\ \A k, l \in DOMAIN pass[p].calls :
              k # l => pass[p].calls[k].agent # pass[p].calls[l].agent
        /\ pass[p].pc = "done" =>
              Len(pass[p].calls) = Cardinality(NamesOf(pass[p].agents))

\* A completed pass over a roster with a repeated name: fewer calls than records.
C1_Witness ==
    \E p \in Passes :
        /\ pass[p].pc = "done"
        /\ Len(pass[p].agents) = 3
        /\ pass[p].agents[1].name = pass[p].agents[3].name
        /\ pass[p].agents[1].name # pass[p].agents[2].name
        /\ Len(pass[p].calls) = 2

\* C2: in the roster a pass has published, any two records with the same name
\* hold the same proxy_token bytes.
C2_SameNameSameToken ==
    \A p \in Passes :
        pass[p].published > 0 =>
            \A i, j \in DOMAIN pass[p].agents :
                pass[p].agents[i].name = pass[p].agents[j].name =>
                    pass[p].agents[i].proxy_token = pass[p].agents[j].proxy_token

\* A published roster with a repeated name whose pass signed at two
\* different times.
C2_Witness ==
    \E p \in Passes :
        /\ pass[p].published > 0
        /\ agents = pass[p].agents
        /\ Len(pass[p].agents) = 3
        /\ pass[p].agents[1].name = pass[p].agents[3].name
        /\ pass[p].agents[1].proxy_token.some
        /\ Len(pass[p].calls) = 2
        /\ pass[p].calls[1].expire_at # pass[p].calls[2].expire_at

\* Every record of the roster carries the token the memo holds for its name.
Complete(ags, tokens) ==
    \A i \in DOMAIN ags :
        /\ ags[i].name \in DOMAIN tokens
        /\ ags[i].proxy_token = Some(tokens[ags[i].name])

\* C3: a step of a pass either leaves the shared roster as it was or replaces
\* it by the pass's complete roster as the pass ends; no step taken while the
\* pass goes on writes to it.
C3_AtomicPublish ==
    [][ \A p \in Passes :
          (pass'[p] # pass[p] /\ agents' # agents) =>
              /\ pass[p].pc \in {"idle", "awaiting"}
              /\ pass'[p].pc = "done"
              /\ agents' = pass'[p].agents
              /\ Complete(agents', pass'[p].tokens) ]_vars

\* A pass suspended at a signing call whose local roster is partly signed
\* while the shared roster is still the one from before the pass.
C3_Witness ==
    \E p \in Passes :
        /\ pass[p].pc = "awaiting"
        /\ pass[p].published = 0
        /\ \E i, j \in DOMAIN pass[p].agents :
              /\ pass[p].agents[i].proxy_token.some
              /\ ~pass[p].agents[j].proxy_token.some
        /\ \A i \in DOMAIN agents : ~agents[i].proxy_token.some

\* C4: the step in which a signing call of a pass fails leaves the shared
\* roster untouched, and the pass has published nothing.
C4_FailurePublishesNothing ==
    [][ \A p \in Passes :
          (pass[p].pc = "awaiting" /\ pass'[p].pc = "trapped") =>
              /\ agents' = agents
              /\ pass'[p].published = 0 ]_vars

\* A pass that failed at its second signing call, after it had signed one
\* agent, while the shared roster holds the tokens another pass published.
C4_Witness ==
    \E p \in Passes :
        /\ pass[p].pc = "trapped"
        /\ Len(pass[p].calls) = 2
        /\ pass[p].agents[1].proxy_token.some
        /\ agents # pass[p].agents
        /\ \A i \in DOMAIN agents : agents[i].proxy_token.some

\* C5: a pass started on an empty roster ends at once, has issued no signing
\* call, has published nothing and leaves the shared roster as it was.
C5_EmptyRosterNoOp ==
    [][ \A p \in Passes :
          (pass[p].pc = "idle" /\ agents = << >> /\ pass'[p] # pass[p]) =>
              /\ pass'[p].pc = "done"
              /\ pass'[p].calls = << >>
              /\ pass'[p].published = 0
              /\ agents' = agents ]_vars

\* A pass that ran on an empty roster.
C5_Witness ==
    \E p \in Passes :
        /\ pass[p].pc = "done"
        /\ pass[p].agents = << >>
        /\ agents = << >>
        /\ pass[p].calls = << >>

\* C10 as stated: every signing call of a pass carries the expiry computed
\* from the time T at which the pass started, T + I + 120.
C10_Original ==
    \A p \in Passes :
        \A k \in DOMAIN pass[p].calls :
            pass[p].calls[k].expire_at =
                pass[p].started + proxy_token_refresh_interval + TokenMargin

\* C10 (amended): each signing call is made with the expiry computed from the
\* time at which that call is made, now + I + 120, and with the name of the
\* record being signed as its subject; the first call of a pass uses the
\* time the pass started and no later call carries an earlier expiry.
C10_ExpiryAtCallTime ==
    [][ \A p \in Passes :
          Len(pass'[p].calls) # Len(pass[p].calls) =>
              LET c == pass'[p].calls[Len(pass'[p].calls)]
              IN  /\ Len(pass'[p].calls) = Len(pass[p].calls) + 1
                  /\ c.expire_at = time + proxy_token_refresh_interval + TokenMargin
                  /\ c.agent = pass'[p].agents[pass'[p].idx].name
                  /\ c.expire_at >=
                        pass'[p].started + proxy_token_refresh_interval + TokenMargin
                  /\ \A k \in DOMAIN pass[p].calls :
                        pass[p].calls[k].expire_at <= c.expire_at ]_vars

\* A pass whose two signing calls were made at different times.
C10_Witness ==
    \E p \in Passes :
        /\ Len(pass[p].calls) = 2
        /\ pass[p].calls[1].agent # pass[p].calls[2].agent
        /\ pass[p].calls[1].expire_at < pass[p].calls[2].expire_at
        /\ pass[p].calls[1].expire_at =
              pass[p].started + proxy_token_refresh_interval + TokenMargin
\* C11: in the roster a pass has published, every record has proxy_token
\* set, to the token one of that pass's own signing calls returned for a
\* subject equal to the record's name.
C11_AllSetBySamePass ==
    \A p \in Passes :
        pass[p].published > 0 =>
            \A i \in DOMAIN pass[p].agents :
                /\ pass[p].agents[i].proxy_token.some
                /\ \E k \in DOMAIN pass[p].calls :
                      /\ pass[p].calls[k].agent = pass[p].agents[i].name
                      /\ pass[p].agents[i].proxy_token.val = SignedToken(pass[p].calls[k])
                      /\ from_reader(pass[p].agents[i].proxy_token.val).token[2]
                            = pass[p].agents[i].name

\* A pass that read a roster carrying another pass's tokens has published,
\* and its roster holds none of them.
C11_Witness ==
    \E p, q \in Passes :
        /\ p # q
        /\ pass[p].published > 0 /\ pass[q].published > 0
        /\ pass[p].replaced = pass[q].agents
        /\ Len(pass[p].agents) = 3
        /\ pass[p].agents[1].name = pass[p].agents[3].name
        /\ pass[p].agents[1].name # pass[p].agents[2].name
        /\ \A i \in DOMAIN pass[p].agents :
              pass[p].agents[i].proxy_token # pass[q].agents[i].proxy_token

\* C12: a pass publishes once, its own complete roster; when both passes
\* have published, the shared roster is in full the roster of the pass that
\* published last (the one whose write replaced the other's roster).
C12_LastWriterWins ==
    /\ [](\A p, q \in Passes :
            (p # q /\ pass[p].published > 0 /\ pass[q].published > 0) =>
                \E w, l \in Passes :
                    /\ w # l
                    /\ pass[w].replaced = pass[l].agents
                    /\ agents = pass[w].agents
                    /\ Complete(agents, pass[w].tokens))
    /\ [][ \A p \in Passes :
             pass'[p].published # pass[p].published =>
                 /\ pass'[p].published = 1
                 /\ agents' = pass'[p].agents
                 /\ Complete(agents', pass'[p].tokens) ]_vars

\* Two passes overlapped: the one that started first published last, over
\* the roster of the other, and the two rosters differ in every token.
C12_Witness ==
    \E w, l \in Passes :
        /\ w # l
        /\ pass[w].published = 1 /\ pass[l].published = 1
        /\ pass[w].started < pass[l].started
        /\ pass[w].replaced = pass[l].agents
        /\ agents = pass[w].agents
        /\ Len(agents) >= 2
        /\ \A i \in DOMAIN agents :
              pass[w].agents[i].proxy_token # pass[l].agents[i].proxy_token

\* The expiry a token carries.
ExpiryOf(token) == from_reader(token).token[1]

\* C15: every token in the roster a pass has published is passed by the
\* expiry check of the verifiers at every time now up to T + I + 120, T being
\* the time the pass started, in either build.
C15_OutlivesNextRefresh ==
    \A p \in Passes :
        pass[p].published > 0 =>
            \A i \in DOMAIN pass[p].agents :
                \A now \in 0..(pass[p].started + proxy_token_refresh_interval + TokenMargin) :
                    \A oc \in BOOLEAN :
                        ExpiryCheck(ExpiryOf(pass[p].agents[i].proxy_token.val), now, oc)
                            = "fresh"

\* A published roster whose pass was suspended while time advanced, so that
\* its tokens do not all carry the same expiry.
C15_Witness ==
    \E p \in Passes :
        /\ pass[p].published > 0
        /\ agents = pass[p].agents
        /\ time > pass[p].started
        /\ \E i, j \in DOMAIN agents :
              ExpiryOf(agents[i].proxy_token.val) < ExpiryOf(agents[j].proxy_token.val)

\* The names for which both rosters hold a token, with the lowest expiry
\* each roster holds for the name.
TokensFor(ags, n) ==
    { ExpiryOf(ags[i].proxy_token.val) :
        i \in { j \in DOMAIN ags : ags[j].name = n /\ ags[j].proxy_token.some } }

\* C18 as stated: no step lowers the expiry of the token the shared roster
\* holds for a name.
C18_Original ==
    [][ \A n \in Names :
          \A old \in TokensFor(agents, n) :
              \A new \in TokensFor(agents', n) : old <= new ]_vars

\* C18 (amended): a signing call is never made with an expiry below that of
\* a token the shared roster holds at the time of the call, so a pass that
\* starts after another published never publishes a token expiring sooner
\* than the one it read; a pass that overlaps another and publishes after it
\* replaces the roster whole, and then the expiry published for a name can
\* decrease.
C18_NoDecreaseAtCallTime ==
    [][ \A p \in Passes :
          Len(pass'[p].calls) # Len(pass[p].calls) =>
              \A n \in Names :
                  \A old \in TokensFor(agents, n) :
                      old <= pass'[p].calls[Len(pass'[p].calls)].expire_at ]_vars

\* A pass that started after another had published, and published tokens
\* that expire later than the ones it read.
C18_Witness ==
    \E p, q \in Passes :
        /\ p # q
        /\ pass[p].published > 0 /\ pass[q].published > 0
        /\ pass[p].replaced = pass[q].agents
        /\ agents = pass[p].agents
        /\ \A i \in DOMAIN agents :
              ExpiryOf(pass[q].agents[i].proxy_token.val)
                  < ExpiryOf(agents[i].proxy_token.val)

\* The names of a roster, in order.
NameSeq(ags) == [i \in DOMAIN ags |-> ags[i].name]

\* C17: the local roster of a pass takes its length and its names, in order,
\* from the shared roster the pass reads when it starts and keeps them at
\* every later step; the write that ends the pass makes the shared roster
\* equal to that local roster, whatever the shared roster had become.
C17_SnapshotReplacesRoster ==
    [][ \A p \in Passes :
          /\ (pass[p].pc = "idle" /\ pass'[p].pc # "idle") =>
                NameSeq(pass'[p].agents) = NameSeq(agents)
          /\ pass[p].pc # "idle" =>
                NameSeq(pass'[p].agents) = NameSeq(pass[p].agents)
          /\ pass'[p].published # pass[p].published =>
                /\ agents' = pass'[p].agents
                /\ \A i \in DOMAIN agents' : agents'[i].proxy_token.some ]_vars

\* A pass has published over a roster that another actor had put in place
\* while the pass was suspended: other names, or another length.
C17_Witness ==
    \E p \in Passes :
        /\ pass[p].published > 0
        /\ Len(pass[p].calls) > 0
        /\ agents = pass[p].agents
        /\ \A q \in Passes \ {p} : pass[q].pc = "idle"
        /\ NameSeq(pass[p].replaced) # NameSeq(pass[p].agents)
        /\ Len(pass[p].replaced) # Len(pass[p].agents)

\* C19: a pass never issues more signing calls than its roster has records,
\* each call returns before the next is issued (one call is outstanding
\* while the pass waits, none once it has completed), it publishes at most
\* once, not at all when it aborts and exactly once when it completes over a
\* roster that is not empty; and a pass waiting for a signing call
\* eventually completes or aborts.
C19_Termination ==
    /\ [](\A p \in Passes :
            /\ Len(pass[p].calls) <= Len(pass[p].agents)
            /\ Len(pass[p].calls) - Cardinality(DOMAIN pass[p].tokens)
                  = IF pass[p].pc \in {"awaiting", "trapped"} THEN 1 ELSE 0
            /\ pass[p].published <= 1
            /\ pass[p].pc = "trapped" => pass[p].published = 0
            /\ (pass[p].pc = "done" /\ pass[p].agents # << >>) =>
                  pass[p].published = 1
            /\ pass[p].pc \in {"idle", "awaiting", "done", "trapped"})
    /\ \A p \in Passes :
          (pass[p].pc = "awaiting") ~> (pass[p].pc \in {"done", "trapped"})

\* One pass has completed after as many signing calls as its roster has
\* records, the other has aborted after a call that returned and one that
\* failed.
C19_Witness ==
    \E p, q \in Passes :
        /\ pass[p].pc = "done" /\ pass[p].published = 1
        /\ Len(pass[p].calls) = Len(pass[p].agents) /\ Len(pass[p].calls) >= 2
        /\ pass[q].pc = "trapped" /\ pass[q].published = 0
        /\ Len(pass[q].calls) = 2

\* ------------------------------------------------------------------------
\* Properties of signing and verifying (checked under SpecAuth)
\* ------------------------------------------------------------------------
Verified == result.scheme # ""
Decoded == from_reader(result.data)
ResultKey(i) ==
    IF result.scheme = "ed25519" THEN Ed25519Key(result.keys[i]) ELSE EcdsaKey(result.keys[i])
ResultKeys == { ResultKey(i) : i \in DOMAIN result.keys }

DecodeError == "failed to decode CBOR data"
ExpiredError == "token expired"
SignatureErrors ==
    { "failed to parse Ed25519 signature", "failed to verify Ed25519 signature",
      "failed to parse Secp256k1 signature", "failed to verify ECDSA/Secp256k1 signature" }

\* The message a key of the verifier's scheme signs for a decoded token.
SignedMessage(token) ==
    IF result.scheme = "ed25519" THEN EncodePayload(token[1], token[2])
    ELSE sha3_256(EncodePayload(token[1], token[2]))

\* Some key the verifier was given validates the decoded token's signature.
SomeKeyValidates ==
    \E key \in ResultKeys : Decoded.token[3] = SigOf(key, SignedMessage(Decoded.token))

\* C6: a well-formed token is rejected as expired exactly when
\* expires_at + DRIFT < now, by either verifier.
C6_ExpiredExactlyPastDrift ==
    (Verified /\ Decoded.ok) =>
        ((result.out.err = ExpiredError) <=>
            (Decoded.token[1] + PERMITTED_DRIFT < result.now))

\* C7: the bytes a signer returns decode to the (expires_at, subject) signed,
\* and verifying them against the signer's key, while expires_at + DRIFT has
\* not passed, succeeds and returns that expires_at and subject.
C7_RoundTrip ==
    (/\ Verified
     /\ result.data = signed.bytes
     /\ signed.key \in ResultKeys
     /\ signed.expire_at + PERMITTED_DRIFT >= result.now) =>
        /\ Decoded.ok
        /\ Decoded.token[1] = signed.expire_at
        /\ Decoded.token[2] = signed.agent
        /\ result.out.ok
        /\ result.out.token[1] = signed.expire_at
        /\ result.out.token[2] = signed.agent

\* C8: for a well-formed token whose expires_at + DRIFT has not passed,
\* verification succeeds exactly when some key of the set validates the
\* signature, wherever the key stands in the set; when none does (the only
\* validating key removed, or an empty set) it fails with a signature error.
C8_KeyRotation ==
    (Verified /\ Decoded.ok /\ Decoded.token[1] + PERMITTED_DRIFT >= result.now) =>
        /\ result.out.ok <=> SomeKeyValidates
        /\ ~SomeKeyValidates => result.out.err \in SignatureErrors

\* The verifier's outcome on the token as signed, under the keys and at the
\* time of the last verification.
UnalteredOutcome ==
    IF result.scheme = "ed25519"
    THEN ed25519_verify([i \in DOMAIN result.keys |-> ResultKey(i)], signed.bytes,
                        result.now, overflow_checks)
    ELSE ecdsa_verify([i \in DOMAIN result.keys |-> ResultKey(i)], signed.bytes,
                      result.now, overflow_checks)

\* A token that verifies as signed was altered in one bit and then verified.
Altered == Verified /\ result.data # signed.bytes /\ UnalteredOutcome.ok

\* C9 as stated: an altered token fails with the decode error or a signature
\* error.
C9_Original ==
    Altered =>
        /\ ~result.out.ok
        /\ result.out.err \in SignatureErrors \cup {DecodeError}

\* C9 (amended): an altered token never verifies. It fails with the decode
\* error or a signature error, or, when the alteration moved the expiry so
\* that the expiry check rejects it, with the expired error; where the
\* altered expiry plus the drift passes the top of u64, a build with overflow
\* checks aborts the call instead.
C9_TamperNeverVerifies ==
    Altered =>
        /\ ~result.out.ok
        /\ \/ result.out.err \in SignatureErrors \cup {DecodeError}
           \/ /\ result.out.err = ExpiredError
              /\ Decoded.ok
              /\ Decoded.token[1] # signed.expire_at
              /\ (Decoded.token[1] + PERMITTED_DRIFT) % Word < result.now
           \/ /\ result.out = Panic
              /\ overflow_checks
              /\ Decoded.ok
              /\ Decoded.token[1] # signed.expire_at
              /\ Decoded.token[1] + PERMITTED_DRIFT >= Word

\* Altered tokens that decode: one with another subject under the signature
\* of the original, refused for its signature.
C9_Witness ==
    /\ Altered
    /\ Decoded.ok
    /\ Decoded.token[1] = signed.expire_at
    /\ Decoded.token[2] # signed.agent
    /\ Decoded.token[3] = from_reader(signed.bytes).token[3]
    /\ result.out.err \in SignatureErrors
\* C13: verifying changes nothing but the outcome reported; a token as
\* signed, verified with its key in the set at any time now with
\* expires_at + DRIFT >= now, is accepted, however often; and bytes once
\* rejected as expired are rejected as expired when verified again later.
C13_Repeatable ==
    [][ result' # result =>
          /\ UNCHANGED << overflow_checks, vkeys, unix_s, signed, data, refreshVars >>
          /\ (/\ result'.data = signed.bytes
              /\ signed.key \in ResultKeys'
              /\ signed.expire_at + PERMITTED_DRIFT >= result'.now) => result'.out.ok
          /\ (/\ result.scheme = result'.scheme
              /\ result.data = result'.data
              /\ result.out.err = ExpiredError) => result'.out.err = ExpiredError ]_vars

\* C14: bytes that do not decode are rejected with the decode error; a
\* well-formed token whose expires_at + DRIFT has passed is rejected with the
\* expired error, whatever its signature and whatever the keys.
C14_CheckOrder ==
    Verified =>
        /\ ~Decoded.ok => result.out.err = DecodeError
        /\ (Decoded.ok /\ Decoded.token[1] + PERMITTED_DRIFT < result.now) =>
              result.out.err = ExpiredError

\* An expired token whose signature was cut to an invalid length, rejected as
\* expired.
C14_Witness ==
    /\ Verified
    /\ Decoded.ok
    /\ Decoded.token[1] + PERMITTED_DRIFT < result.now
    /\ Len(Decoded.token[3]) # SigLen
    /\ ~SomeKeyValidates
    /\ result.out.err = ExpiredError

\* C16: for a decodable token with any expires_at of the word, the top ten
\* values included, verification does not abort on the addition and a token
\* whose expires_at + DRIFT has not passed is not reported as expired.
C16_NoOverflow ==
    (Verified /\ Decoded.ok) =>
        /\ result.out # Panic
        /\ Decoded.token[1] + PERMITTED_DRIFT >= result.now =>
              result.out.err # ExpiredError
====
